---- MODULE Spec2Model ----
(***************************************************************************)
(* Model of konvert.py: conversion of a signed fixed-point literal between *)
(* numeral bases 2..36 and storage units, as run from the command line     *)
(* (main) and from the local web front-end (WebUIHTTPHandler.do_GET).      *)
(*                                                                         *)
(* Three specifications: Spec is one run of main or of do_GET; SpecCall is *)
(* one call of a validation or conversion function; SpecServer is          *)
(* start_webui with its serving loop, handlers and shutdown threads.       *)
(*                                                                         *)
(* Python values are modelled as follows.                                  *)
(*   str    a TLA+ string; a character is a string of length 1.            *)
(*   int    an integer; the unit weights, which exceed the integers of the *)
(*          model checker, are kept factored as 2^two * 5^five.            *)
(*   float  a binary64 value n / 2^k, kept as the pair <<n, k>> with n odd *)
(*          or k = 0.  The model covers the executions in which every      *)
(*          float operation is exact (its result is again such a pair      *)
(*          within FLOAT_N_MAX and FLOAT_K_MAX); the requests and calls of *)
(*          Init are restricted to those executions.  For these values     *)
(*          str(x) is the exact decimal expansion of x.                    *)
(*   raise  an operator that can raise returns Raise(kind, msg) instead of *)
(*          Ret(value).                                                    *)
(***************************************************************************)
EXTENDS Integers, Sequences, FiniteSets, TLC

VARIABLES
  iface,     \* "cli": main() run from the shell; "web": a GET handled by do_GET; "call": one library call
  pc,        \* position of the run inside main / do_GET
  path,      \* the request target of a GET up to its query string
  params,    \* raw argument strings by name (the argv values / the query string)
  args,      \* the sanitized arguments (the results of the type_* functions)
  num,       \* the local variable num of the conversion
  exc,       \* the exception in flight, NoExc when there is none
  status,    \* the HTTP status sent (web) or the exit status (cli); 0 while none
  out,       \* the result literal written to the client / printed
  call,      \* library call under test: function name and arguments
  ret,       \* what that call returned or raised
  loop,      \* position of the serving thread inside start_webui / serve_forever
  shutdown_request,  \* BaseServer.__shutdown_request
  is_shut_down,      \* BaseServer.__is_shut_down (a threading.Event)
  socket_open,       \* the listening socket of the TCPServer is open
  pending,   \* connections waiting to be accepted, oldest first (request ids)
  requests,  \* per request id: its target and the status sent, NoStatus while none
  threads    \* per request id: position of the thread spawned by its /shutdown handler

\* the state of one conversion or library call
conv == <<iface, pc, path, params, args, num, exc, status, out, call, ret>>
\* the state of the web server
srv == <<loop, shutdown_request, is_shut_down, socket_open, pending, requests, threads>>

vars == <<iface, pc, path, params, args, num, exc, status, out, call, ret,
          loop, shutdown_request, is_shut_down, socket_open, pending, requests, threads>>

----------------------------------------------------------------------------
(* Bounds of the model *)

\* longest number literal of a request
MaxLen == 3
\* longest digit string handed to base_to_int by a library call
MaxDigits == 3
\* largest numerator of a float given to float_to_base by a library call
MaxNum == 5
\* longest base token, besides the names of the table
MaxToken == 2
\* largest k of a float n / 2^k
FLOAT_K_MAX == 20
\* largest magnitude of an integer or of a float's numerator
FLOAT_N_MAX == 1000000000

----------------------------------------------------------------------------
(* Python values and exceptions *)

None == [type |-> "None"]
PyStr(s) == [type |-> "str", v |-> s]
PyInt(n) == [type |-> "int", v |-> n]
PyFloat(x) == [type |-> "float", v |-> x]

NoExc == [kind |-> "none", msg |-> ""]
Ret(v) == [exc |-> NoExc, val |-> v]
Raise(kind, msg) == [exc |-> [kind |-> kind, msg |-> msg], val |-> None]
Raised(r) == r.exc.kind # "none"

----------------------------------------------------------------------------
(* str operations *)

CharAt(s, i) == SubSeq(s, i + 1, i + 1)
Chars(s) == {CharAt(s, i) : i \in 0..(Len(s) - 1)}
Drop(s, n) == SubSeq(s, n + 1, Len(s))

\* c in s, for a single character c
CharIn(c, s) == \E i \in 0..(Len(s) - 1) : CharAt(s, i) = c

\* s.find(c): the first position of c, -1 when absent
Find(s, c) ==
  IF CharIn(c, s)
    THEN CHOOSE i \in 0..(Len(s) - 1) :
           /\ CharAt(s, i) = c
           /\ \A j \in 0..(i - 1) : CharAt(s, j) # c
    ELSE -1

\* s.index(c): as find, but raises ValueError when absent
Index(s, c) ==
  IF CharIn(c, s) THEN Ret(Find(s, c)) ELSE Raise("ValueError", "substring not found")

RECURSIVE Replace(_, _, _)
\* s.replace(c, r): every occurrence of c replaced
Replace(s, c, r) ==
  IF Len(s) = 0 THEN ""
  ELSE (IF Head(s) = c THEN r ELSE Head(s)) \o Replace(Drop(s, 1), c, r)

ASCII_UPPER == "ABCDEFGHIJKLMNOPQRSTUVWXYZ"
ASCII_LOWER == "abcdefghijklmnopqrstuvwxyz"
WHITESPACE == " "

LowerChar(c) == IF CharIn(c, ASCII_UPPER) THEN CharAt(ASCII_LOWER, Find(ASCII_UPPER, c)) ELSE c

RECURSIVE Lower(_)
\* s.lower()
Lower(s) == IF Len(s) = 0 THEN "" ELSE LowerChar(Head(s)) \o Lower(Drop(s, 1))

RECURSIVE LStrip(_)
LStrip(s) == IF Len(s) > 0 /\ CharIn(Head(s), WHITESPACE) THEN LStrip(Drop(s, 1)) ELSE s

RECURSIVE RStrip(_)
RStrip(s) ==
  IF Len(s) > 0 /\ CharIn(CharAt(s, Len(s) - 1), WHITESPACE)
    THEN RStrip(SubSeq(s, 1, Len(s) - 1)) ELSE s

\* s.strip()
Strip(s) == RStrip(LStrip(s))

----------------------------------------------------------------------------
(* Tables *)

\* a unit weight in bits, 2^two * 5^five
Weight(two, five) == [two |-> two, five |-> five]

BASES_RAW ==
  << << << "binary", "bin" >>, 2 >>,
     << << "ternary" >>, 3 >>,
     << << "quaternary" >>, 4 >>,
     << << "quinary" >>, 5 >>,
     << << "senary", "seximal" >>, 6 >>,
     << << "septimal", "septinary", "septenary" >>, 7 >>,
     << << "octal", "oct" >>, 8 >>,
     << << "nonary", "nonal" >>, 9 >>,
     << << "decimal", "dec", "denary" >>, 10 >>,
     << << "undecimal", "unodecimal", "undenary" >>, 11 >>,
     << << "duodecimal", "dozenal" >>, 12 >>,
     << << "tredecimal", "tridecimal" >>, 13 >>,
     << << "quattuordecimal", "quadrodecimal", "tetradecimal" >>, 14 >>,
     << << "quindecimal", "pentadecimal" >>, 15 >>,
     << << "hexadecimal", "hex", "sexadecimal", "sedecimal" >>, 16 >>,
     << << "septendecimal", "heptadecimal" >>, 17 >>,
     << << "octodecimal" >>, 18 >>,
     << << "undevicesimal", "nonadecimal", "enneadecimal" >>, 19 >>,
     << << "vigesimal" >>, 20 >>,
     << << "unvigesimal" >>, 21 >>,
     << << "duovigesimal" >>, 22 >>,
     << << "trivigesimal" >>, 23 >>,
     << << "quadravigesimal", "tetravigesimal" >>, 24 >>,
     << << "pentavigesimal" >>, 25 >>,
     << << "hexavigesimal" >>, 26 >>,
     << << "septemvigesimal", "heptavigesimal" >>, 27 >>,
     << << "octovigesimal" >>, 28 >>,
     << << "enneavigesimal" >>, 29 >>,
     << << "trigesimal" >>, 30 >>,
     << << "untrigesimal" >>, 31 >>,
     << << "duotrigesimal" >>, 32 >>,
     << << "tritrigesimal" >>, 33 >>,
     << << "tetratrigesimal" >>, 34 >>,
     << << "pentatrigesimal" >>, 35 >>,
     << << "hexatrigesimal" >>, 36 >> >>

UNITS_RAW ==
  << << << "b", "bit" >>, Weight(0, 0) >>,  \* 1
     << << "N", "nibble" >>, Weight(2, 0) >>,  \* 4
     << << "B", "byte" >>, Weight(3, 0) >>,  \* 8
     << << "KB", "kilobyte" >>, Weight(6, 3) >>,  \* 10**3 * 8
     << << "MB", "megabyte" >>, Weight(9, 6) >>,  \* 10**6 * 8
     << << "GB", "gigabyte" >>, Weight(12, 9) >>,  \* 10**9 * 8
     << << "TB", "terabyte" >>, Weight(15, 12) >>,  \* 10**12 * 8
     << << "PB", "petabyte" >>, Weight(18, 15) >>,  \* 10**15 * 8
     << << "EB", "exabyte" >>, Weight(21, 18) >>,  \* 10**18 * 8
     << << "ZB", "zettabyte" >>, Weight(24, 21) >>,  \* 10**21 * 8
     << << "YB", "yottabyte" >>, Weight(27, 24) >>,  \* 10**24 * 8
     << << "KiB", "kibibyte" >>, Weight(13, 0) >>,  \* 2**10 * 8
     << << "MiB", "mebibyte" >>, Weight(23, 0) >>,  \* 2**20 * 8
     << << "GiB", "gibibyte" >>, Weight(33, 0) >>,  \* 2**30 * 8
     << << "TiB", "tebibyte" >>, Weight(43, 0) >>,  \* 2**40 * 8
     << << "PiB", "pebibyte" >>, Weight(53, 0) >>,  \* 2**50 * 8
     << << "EiB", "exbibyte" >>, Weight(63, 0) >>,  \* 2**60 * 8
     << << "ZiB", "zebibyte" >>, Weight(73, 0) >>,  \* 2**70 * 8
     << << "YiB", "yobibyte" >>, Weight(83, 0) >>,  \* 2**80 * 8
     << << "Kb", "kilobit" >>, Weight(3, 3) >>,  \* 10**3
     << << "Mb", "megabit" >>, Weight(6, 6) >>,  \* 10**6
     << << "Gb", "gigabit" >>, Weight(9, 9) >>,  \* 10**9
     << << "Tb", "terabit" >>, Weight(12, 12) >>,  \* 10**12
     << << "Pb", "petabit" >>, Weight(15, 15) >>,  \* 10**15
     << << "Eb", "exabit" >>, Weight(18, 18) >>,  \* 10**18
     << << "Zb", "zettabit" >>, Weight(21, 21) >>,  \* 10**21
     << << "Yb", "yottabit" >>, Weight(24, 24) >>,  \* 10**24
     << << "Kib", "kibibit" >>, Weight(10, 0) >>,  \* 2**10
     << << "Mib", "mebibit" >>, Weight(20, 0) >>,  \* 2**20
     << << "Gib", "gibibit" >>, Weight(30, 0) >>,  \* 2**30
     << << "Tib", "tebibit" >>, Weight(40, 0) >>,  \* 2**40
     << << "Pib", "pebibit" >>, Weight(50, 0) >>,  \* 2**50
     << << "Eib", "exbibit" >>, Weight(60, 0) >>,  \* 2**60
     << << "Zib", "zebibit" >>, Weight(70, 0) >>,  \* 2**70
     << << "Yib", "yobibit" >>, Weight(80, 0) >>   \* 2**80
  >>

\* MultiKeyStaticDict: every key of every key tuple mapped to the tuple's value
MultiKeyStaticDict(raw) ==
  LET keys == UNION {{raw[i][1][j] : j \in 1..Len(raw[i][1])} : i \in 1..Len(raw)}
  IN  [key \in keys |->
        LET i == CHOOSE i \in 1..Len(raw) :
                   /\ \E j \in 1..Len(raw[i][1]) : raw[i][1][j] = key
                   /\ \A h \in (i + 1)..Len(raw) :
                        \A j \in 1..Len(raw[h][1]) : raw[h][1][j] # key
        IN  raw[i][2]]

BASES == MultiKeyStaticDict(BASES_RAW)
UNITS == MultiKeyStaticDict(UNITS_RAW)

ALNUM_LIST == "0123456789abcdefghijklmnopqrstuvwxyz"
DELIMITER == "."
BASE_MIN == 2
BASE_MAX == 36

----------------------------------------------------------------------------
(* Input validation *)

RECURSIVE get_abs_loop_any_sign(_, _)
\* get_abs_loop counting every sign character, not only '-'
get_abs_loop_any_sign(val, negative_count) ==
  IF Len(val) = 0 THEN Raise("IndexError", "string index out of range")
  ELSE IF CharIn(CharAt(val, 0), "-+")
    THEN get_abs_loop_any_sign(Drop(val, 1), negative_count + 1)
    ELSE Ret(<<val, negative_count % 2 = 1>>)

RECURSIVE get_abs_loop(_, _)
\* the while loop of get_abs; val[0] of an empty str raises IndexError
get_abs_loop(val, negative_count) ==
  IF Len(val) = 0 THEN Raise("IndexError", "string index out of range")
  ELSE IF CharIn(CharAt(val, 0), "-+")
    THEN get_abs_loop(Drop(val, 1),
                      IF CharAt(val, 0) = "-" THEN negative_count + 1 ELSE negative_count)
    ELSE Ret(<<val, negative_count % 2 = 1>>)

get_abs(val) == get_abs_loop(val, 0)

type_alphanumeric(val) ==
  LET abs == get_abs(Lower(Strip(val)))
  IN  IF Raised(abs) THEN abs
      ELSE
        LET val_0 == abs.val[1]
            is_negative == abs.val[2]
            delimiter_pos == Find(val_0, DELIMITER)
            val_form == IF delimiter_pos = -1 THEN val_0 ELSE Replace(val_0, DELIMITER, "")
            delimiter_offset == IF delimiter_pos = -1 THEN 0 ELSE Len(val_form) - delimiter_pos
        IN  IF \A c \in Chars(val_form) : CharIn(c, ALNUM_LIST)
              THEN Ret([val_form |-> val_form,
                        delimiter_offset |-> delimiter_offset,
                        is_negative |-> is_negative])
              ELSE Raise("ArgumentTypeError", "Number may exist, but this program does not support it.")

RECURSIVE base_to_int_loop_lax(_, _, _)
\* base_to_int_loop with the range test n > base
base_to_int_loop_lax(digits, base, res) ==
  IF Len(digits) = 0 THEN Ret(res)
  ELSE LET n == Index(ALNUM_LIST, Head(digits))
       IN  IF Raised(n) THEN n
           ELSE IF n.val > base THEN Raise("ValueError", "Number is not of base.")
           ELSE base_to_int_loop_lax(Drop(digits, 1), base, n.val + base * res)

RECURSIVE base_to_int_loop(_, _, _)
\* the for loop of base_to_int over the remaining digits, res so far
base_to_int_loop(digits, base, res) ==
  IF Len(digits) = 0 THEN Ret(res)
  ELSE LET n == Index(ALNUM_LIST, Head(digits))
       IN  IF Raised(n) THEN n
           ELSE IF n.val + 1 > base THEN Raise("ValueError", "Number is not of base.")
           ELSE base_to_int_loop(Drop(digits, 1), base, n.val + base * res)

\* base_to_int reading the digits as decimal whatever the base
base_to_int_decimal(digits, base) == base_to_int_loop(digits, BASES["decimal"], 0)

base_to_int(digits, base) == base_to_int_loop(digits, base, 0)

type_base(val) ==
  IF Lower(val) \in DOMAIN BASES THEN Ret(BASES[Lower(val)])
  ELSE LET number_base == base_to_int(val, BASES["decimal"])
       IN  IF Raised(number_base) THEN number_base
           ELSE IF BASE_MIN <= number_base.val /\ number_base.val <= BASE_MAX
             THEN number_base
             ELSE Raise("ArgumentTypeError", "Base may exist, but this program does not support it.")

\* type_unit comparing every name without regard to case
type_unit_caseless(val) ==
  LET names == {k \in DOMAIN UNITS : Lower(k) = Lower(val)}
  IN  IF val \in DOMAIN UNITS THEN Ret(UNITS[val])
      ELSE IF names # {} THEN Ret(UNITS[CHOOSE k \in names : TRUE])
      ELSE Raise("ArgumentTypeError", "Unit may exist, but this program does not support it.")

type_unit(val) ==
  IF val \in DOMAIN UNITS THEN Ret(UNITS[val])
  ELSE IF Lower(val) \in DOMAIN UNITS THEN Ret(UNITS[Lower(val)])
  ELSE Raise("ArgumentTypeError", "Unit may exist, but this program does not support it.")

----------------------------------------------------------------------------
(* Arithmetic on int and float values *)

RECURSIVE Pow(_, _)
Pow(b, e) == IF e = 0 THEN 1 ELSE b * Pow(b, e - 1)

RECURSIVE GCD(_, _)
GCD(a, b) == IF b = 0 THEN a ELSE GCD(b, a % b)

RECURSIVE Flt(_, _)
\* the float n / 2^k in lowest terms
Flt(n, k) ==
  IF n = 0 THEN <<0, 0>>
  ELSE IF k > 0 /\ n % 2 = 0 THEN Flt(n \div 2, k - 1)
  ELSE <<n, k>>

\* an int or float value as the pair <<n, k>>
AsFlt(x) == IF x.type = "int" THEN <<x.v, 0>> ELSE x.v

IsZero(x) == AsFlt(x)[1] = 0
IsNeg(x) == AsFlt(x)[1] < 0

\* -x, x - d and x * b for an int or float x and ints d, b; an int stays an int
Neg(x) == IF x.type = "int" THEN PyInt(-x.v) ELSE PyFloat(Flt(-x.v[1], x.v[2]))
SubInt(x, d) ==
  IF x.type = "int" THEN PyInt(x.v - d)
  ELSE PyFloat(Flt(x.v[1] - d * Pow(2, x.v[2]), x.v[2]))
MulInt(x, b) == IF x.type = "int" THEN PyInt(x.v * b) ELSE PyFloat(Flt(x.v[1] * b, x.v[2]))

RECURSIVE DecimalDigits(_)
\* str(n) for an int n >= 0
DecimalDigits(n) ==
  IF n < 10 THEN CharAt(ALNUM_LIST, n)
  ELSE DecimalDigits(n \div 10) \o CharAt(ALNUM_LIST, n % 10)

RECURSIVE LeadingDigit(_, _)
\* the first significant decimal digit of m / d, for 0 < m / d < 1
LeadingDigit(m, d) == IF m >= d THEN m \div d ELSE LeadingDigit(m * 10, d)

\* str(x).split(DELIMITER)[0] for x >= 0.  A float below 0.0001 is printed in
\* exponent notation as d.ddde-XX (a float n / 2^k below 1 is never a single
\* digit times a power of ten), so the part before the delimiter is d.
StrWhole(x) ==
  IF x.type = "int" THEN DecimalDigits(x.v)
  ELSE LET n == x.v[1]
           d == Pow(2, x.v[2])
       IN  IF n = 0 \/ n >= (d + 9999) \div 10000
             THEN DecimalDigits(n \div d)
             ELSE DecimalDigits(LeadingDigit(n, d))

RECURSIVE float_to_int_loop(_, _)
\* the for loop of float_to_int over the digits of num_whole
float_to_int_loop(num_whole, res) ==
  IF Len(num_whole) = 0 THEN Ret(res)
  ELSE LET digit_num == Index(ALNUM_LIST, Head(num_whole))
       IN  IF Raised(digit_num) THEN digit_num
           ELSE float_to_int_loop(Drop(num_whole, 1), res * 10 + digit_num.val)

float_to_int(x) ==
  IF IsNeg(x)
    THEN LET r == float_to_int_loop(StrWhole(Neg(x)), 0)
         IN  IF Raised(r) THEN r ELSE Ret(-r.val)
    ELSE float_to_int_loop(StrWhole(x), 0)

\* ALNUM_LIST[i]: a negative index counts from the end, IndexError outside
AlnumAt(i) ==
  IF 0 <= i /\ i < Len(ALNUM_LIST) THEN Ret(CharAt(ALNUM_LIST, i))
  ELSE IF -Len(ALNUM_LIST) <= i /\ i < 0 THEN Ret(CharAt(ALNUM_LIST, Len(ALNUM_LIST) + i))
  ELSE Raise("IndexError", "string index out of range")

RECURSIVE float_to_base_whole(_, _, _)
\* the while loop of float_to_base
float_to_base_whole(num_whole, base, res) ==
  IF num_whole > 0
    THEN LET d == float_to_int(PyInt(num_whole % base))
             c == AlnumAt(d.val)
         IN  IF Raised(d) THEN d
             ELSE IF Raised(c) THEN c
             ELSE float_to_base_whole(num_whole \div base, base, c.val \o res)
    ELSE Ret(res)

RECURSIVE float_to_base_decimals(_, _, _, _)
\* the for loop of float_to_base, with `left` iterations to go
float_to_base_decimals(num_decimals, base, res_decimals, left) ==
  IF left = 0 \/ IsZero(num_decimals) THEN Ret(res_decimals)
  ELSE LET scaled == MulInt(num_decimals, base)
           digit == float_to_int(scaled)
           c == AlnumAt(digit.val)
       IN  IF Raised(digit) THEN digit
           ELSE IF Raised(c) THEN c
           ELSE float_to_base_decimals(SubInt(scaled, digit.val), base,
                                       res_decimals \o c.val, left - 1)

FRACTION_DIGITS == 10

float_to_base(x, base) ==
  LET num_whole == float_to_int(x)
  IN  IF Raised(num_whole) THEN num_whole
      ELSE
        LET num_decimals == SubInt(x, num_whole.val)
            res == float_to_base_whole(num_whole.val, base, "")
            res_decimals == float_to_base_decimals(num_decimals, base, "", FRACTION_DIGITS)
        IN  IF Raised(res) THEN res
            ELSE IF Raised(res_decimals) THEN res_decimals
            ELSE IF res_decimals.val # ""
              THEN Ret(res.val \o DELIMITER \o res_decimals.val)
              ELSE Ret(res.val)

RECURSIVE Log2(_)
Log2(q) == IF q <= 1 THEN 0 ELSE 1 + Log2(q \div 2)

\* p / q for ints p >= 0 and q > 0 (true division), where the quotient is a float
TrueDiv(p, q) == LET g == GCD(p, q) IN PyFloat(Flt(p \div g, Log2(q \div g)))

shift_right(n, base, offset) == TrueDiv(n, Pow(base, offset))

\* num * from_unit / to_unit, which is a float whether num is an int or a float
Scale(x, from_unit, to_unit) ==
  LET n == AsFlt(x)[1]
      k == AsFlt(x)[2]
      two == from_unit.two - to_unit.two - k
      five == from_unit.five - to_unit.five
      n5 == IF five >= 0 THEN n * Pow(5, five) ELSE n \div Pow(5, -five)
  IN  IF n = 0 THEN PyFloat(<<0, 0>>)
      ELSE IF two >= 0 THEN PyFloat(Flt(n5 * Pow(2, two), 0))
      ELSE PyFloat(Flt(n5, -two))

----------------------------------------------------------------------------
(* The executions the float model covers *)

RECURSIVE FitsMul(_, _, _)
\* n * b^e <= FLOAT_N_MAX
FitsMul(n, b, e) == e = 0 \/ (n <= FLOAT_N_MAX \div b /\ FitsMul(n * b, b, e - 1))

RECURSIVE DividesPow(_, _, _)
\* b^e divides n
DividesPow(n, b, e) == e = 0 \/ (n % b = 0 /\ DividesPow(n \div b, b, e - 1))

\* n / base**offset is a float n' / 2^k with k <= FLOAT_K_MAX
ShiftExact(n, base, offset) ==
  LET q == Pow(base, offset)
      d == q \div GCD(n, q)
  IN  n = 0 \/ (d = Pow(2, Log2(d)) /\ Log2(d) <= FLOAT_K_MAX)

\* x * from_unit / to_unit is computed without rounding.  An int x is first
\* multiplied as an int; a float x needs float(from_unit), float(to_unit)
\* and the product to be exact as well.
ScaleExact(x, from_unit, to_unit) ==
  LET n == AsFlt(x)[1]
      k == AsFlt(x)[2]
      two == from_unit.two - to_unit.two - k
      five == from_unit.five - to_unit.five
  IN  \/ n = 0
      \/ /\ x.type = "float" => /\ FitsMul(n, 5, from_unit.five)
                                /\ FitsMul(1, 5, to_unit.five)
         /\ IF five >= 0 THEN FitsMul(n, 5, five) ELSE DividesPow(n, 5, -five)
         /\ IF two >= 0
              THEN FitsMul(IF five >= 0 THEN n * Pow(5, five) ELSE n \div Pow(5, -five), 2, two)
              ELSE -two <= FLOAT_K_MAX

----------------------------------------------------------------------------
(* Requests *)

\* argument names in the order do_GET reads and sanitizes them (the query
\* parameters inputNumber, fromBase, fromUnit, toBase, toUnit)
ARG_NAMES == <<"number", "from_base", "from_unit", "to_base", "to_unit">>
ArgNameSet == {ARG_NAMES[i] : i \in 1..Len(ARG_NAMES)}

\* the defaults of get_arguments for the optional arguments
CLI_DEFAULTS == [from_base |-> "decimal", to_base |-> "decimal",
                 from_unit |-> "bit", to_unit |-> "bit"]

WEBUI_BACKEND_ENDPOINT == "/backend"
WEBUI_SHUTDOWN_ENDPOINT == "/shutdown"

\* type_alphanumeric, type_base or type_unit, as argparse and do_GET apply them
Sanitize(name, val) ==
  IF name = "number" THEN type_alphanumeric(val)
  ELSE IF name \in {"from_base", "to_base"} THEN type_base(val)
  ELSE type_unit(val)

\* the conversion up to the scaled value of a request whose arguments are all
\* valid stays within the float model
InDomain(p) ==
  LET number == type_alphanumeric(p.number)
      from_base == type_base(p.from_base)
      to_base == type_base(p.to_base)
      from_unit == type_unit(p.from_unit)
      to_unit == type_unit(p.to_unit)
      n == base_to_int(number.val.val_form, from_base.val)
      x == IF number.val.delimiter_offset = 0 THEN PyInt(n.val)
           ELSE shift_right(n.val, from_base.val, number.val.delimiter_offset)
  IN  \/ Raised(number) \/ Raised(from_base) \/ Raised(to_base)
      \/ Raised(from_unit) \/ Raised(to_unit)
      \/ Raised(n)
      \/ /\ number.val.delimiter_offset # 0 =>
              ShiftExact(n.val, from_base.val, number.val.delimiter_offset)
         /\ ScaleExact(x, from_unit.val, to_unit.val)

RECURSIVE Strings(_, _)
\* the strings of at most n characters drawn from the set chars
Strings(chars, n) ==
  IF n = 0 THEN {""}
  ELSE LET S == Strings(chars, n - 1)
       IN  S \cup {s \o c : s \in S, c \in chars}

StartsWith(s, prefix) == Len(s) >= Len(prefix) /\ SubSeq(s, 1, Len(prefix)) = prefix

\* the base numerals "2".."36" and the first (short) name of every unit
BaseNumerals == {DecimalDigits(b) : b \in BASE_MIN..BASE_MAX}
UnitShortNames == {UNITS_RAW[i][1][1] : i \in 1..Len(UNITS_RAW)}

Args(number, from_base, to_base, from_unit, to_unit) ==
  [number |-> number, from_base |-> from_base, from_unit |-> from_unit,
   to_base |-> to_base, to_unit |-> to_unit]

\* characters of the number literals of the requests
NUMBER_CHARS == "01.-+"

\* literals of every shape up to a length, a few valid bases and units
LiteralRequests(maxlen) ==
  {Args(n, fb, tb, u[1], u[2]) :
     n \in Strings(Chars(NUMBER_CHARS), maxlen),
     fb \in {"2", "decimal", "16"}, tb \in {"2", "10"},
     u \in {<<"b", "b">>, <<"KiB", "b">>, <<"b", "Mib">>, <<"KB", "B">>}}

\* base and unit tokens of every shape, a few literals
TokenRequests ==
  {Args(n, fb, tb, fu, tu) :
     n \in {"1", "-1.1", " ", "$", "7", "-7"},
     fb \in {"2", "10", "hex", "HEX", "1", "37", "abc", "1A", "-5"},
     tb \in {"2", "Dozenal", "37", "z"},
     fu \in {"b", "B", "byte", "KiB", "kb", "8"},
     tu \in {"b", "Kb", "KILOBIT", "n"}}

\* the literal "0": every pair of bases, and every pair of units
ZeroRequests ==
  {Args("0", fb, tb, fu, tu) :
     fb \in BaseNumerals, tb \in BaseNumerals,
     fu \in {"b", "YB"}, tu \in {"b", "YiB"}}
  \cup
  {Args("0", fb, tb, fu, tu) :
     fb \in {"2", "36"}, tb \in {"2", "36"},
     fu \in UnitShortNames, tu \in UnitShortNames}

\* the concrete scenarios: "ff" 16 -> 10, "1" KiB -> B, "10" and "1010" 2 -> 16
ScenarioRequests ==
  {Args("ff", "16", "10", "b", "b"), Args("1", "10", "10", "KiB", "B"),
   Args("10", "2", "16", "b", "b"), Args("1010", "2", "16", "b", "b")}

RECURSIVE MulDecimal(_, _, _)
\* the decimal numeral s times the int m, plus the carry, as a decimal numeral
MulDecimal(s, m, carry) ==
  IF Len(s) = 0 THEN (IF carry = 0 THEN "" ELSE DecimalDigits(carry))
  ELSE LET d == m * Find(ALNUM_LIST, CharAt(s, Len(s) - 1)) + carry
       IN  MulDecimal(SubSeq(s, 1, Len(s) - 1), m, d \div 10) \o DecimalDigits(d % 10)

RECURSIVE StrPow2(_)
\* str(2**n)
StrPow2(n) ==
  IF n < 10 THEN DecimalDigits(Pow(2, n)) ELSE MulDecimal(StrPow2(n - 10), Pow(2, 10), 0)

RECURSIVE Zeros(_)
Zeros(n) == IF n = 0 THEN "" ELSE "0" \o Zeros(n - 1)

\* str(val) of a unit weight 2^two * 5^five (five <= two in the table)
StrWeight(w) == StrPow2(w.two - w.five) \o Zeros(w.five)

\* the value attributes of the page's base options: str(val) of every base
WEBUI_BASE_OPTIONS == {DecimalDigits(BASES_RAW[i][2]) : i \in 1..Len(BASES_RAW)}

\* the value attributes of the page's unit options: str(val) of every unit
WEBUI_UNIT_OPTIONS == {StrWeight(UNITS_RAW[i][2]) : i \in 1..Len(UNITS_RAW)}

\* the requests the page's script builds from its option values: every pair
\* of base options and every pair of unit options, the number 1
PageRequests ==
  {Args("1", fb, tb, u[1], u[2]) :
     fb \in WEBUI_BASE_OPTIONS, tb \in WEBUI_BASE_OPTIONS,
     u \in {<<"1", "1">>, <<"8192", "8">>}}
  \cup
  {Args("1", b[1], b[2], fu, tu) :
     b \in {<<"2", "16">>, <<"10", "10">>},
     fu \in WEBUI_UNIT_OPTIONS, tu \in WEBUI_UNIT_OPTIONS}

\* requests with arguments left out
PartialRequests ==
  {[name \in D |-> Args("1", "10", "2", "B", "b")[name]] : D \in (SUBSET ArgNameSet) \ {ArgNameSet}}

\* the requests of the model (a conversion of 0 is exact whatever the units)
Requests(maxlen) ==
  {p \in LiteralRequests(maxlen) \cup TokenRequests \cup ScenarioRequests : InDomain(p)}
  \cup ZeroRequests \cup PartialRequests

Paths == {"/", "/backend", "/backend/x", "/favicon.ico"}

NoStatus == -1
NoCall == [fn |-> "none"]

\* no web server: main without --web-ui, one handler run, or one library call
ServerOff ==
  /\ loop = [at |-> "off", req |-> 0]
  /\ shutdown_request = FALSE
  /\ is_shut_down = FALSE
  /\ socket_open = FALSE
  /\ pending = << >>
  /\ requests = << >>
  /\ threads = << >>

----------------------------------------------------------------------------
(* main and WebUIHTTPHandler.do_GET *)

Init ==
  /\ iface \in {"cli", "web"}
  /\ \/ /\ params \in Requests(MaxLen)
        /\ path = IF iface = "web" THEN WEBUI_BACKEND_ENDPOINT ELSE ""
        \* argparse reads the argument "--" as the end of the options, never as a value
        /\ iface = "cli" => \A name \in DOMAIN params : params[name] # "--"
     \/ /\ iface = "web"
        /\ params \in {<< >>, Args("1", "10", "2", "B", "b")}
        /\ path \in Paths
     \/ /\ iface = "web"
        /\ params \in PageRequests
        /\ path = WEBUI_BACKEND_ENDPOINT
  /\ pc = "start"
  /\ args = None
  /\ num = None
  /\ exc = NoExc
  /\ status = NoStatus
  /\ out = None
  /\ call = NoCall
  /\ ret = None
  /\ ServerOff

Thrown(r, stage) == [kind |-> r.exc.kind, msg |-> r.exc.msg, stage |-> stage]

\* get_arguments: argparse applies the type functions to the given arguments
\* in command-line order and to the defaults; it reports ArgumentTypeError
\* and ValueError of a type function as a usage error (exit status 2) and
\* lets every other exception through.
get_arguments ==
  /\ iface = "cli" /\ pc = "start"
  /\ IF "number" \notin DOMAIN params
       THEN /\ pc' = "done"
            /\ status' = 2
            /\ UNCHANGED <<args, exc>>
       ELSE LET vals == [name \in ArgNameSet |->
                           IF name \in DOMAIN params THEN params[name] ELSE CLI_DEFAULTS[name]]
                res == [name \in ArgNameSet |-> Sanitize(name, vals[name])]
                failing == {name \in ArgNameSet : Raised(res[name])}
            IN  IF failing = {}
                  THEN /\ args' = [name \in ArgNameSet |-> res[name].val]
                       /\ pc' = "Parsed"
                       /\ UNCHANGED <<exc, status>>
                  ELSE /\ \E name \in failing : exc' = Thrown(res[name], "args")
                       /\ pc' = "raised"
                       /\ UNCHANGED <<args, status>>
  /\ UNCHANGED <<iface, path, params, num, out, call, ret>>
  /\ UNCHANGED srv

\* self.path == "/": self.path is the request target with its query string
IsStartPage == path = "/" /\ DOMAIN params = {}

\* do_GET, start page
do_GET_startpage ==
  /\ iface = "web" /\ pc = "start"
  /\ IsStartPage
  /\ status' = 200
  /\ pc' = "done"
  /\ UNCHANGED <<iface, path, params, args, num, exc, out, call, ret>>
  /\ UNCHANGED srv

\* do_GET, neither the start page nor the backend endpoint
do_GET_not_found ==
  /\ iface = "web" /\ pc = "start"
  /\ ~IsStartPage /\ ~StartsWith(path, WEBUI_BACKEND_ENDPOINT)
  /\ ~StartsWith(path, WEBUI_SHUTDOWN_ENDPOINT)
  /\ status' = 404
  /\ pc' = "done"
  /\ UNCHANGED <<iface, path, params, args, num, exc, out, call, ret>>
  /\ UNCHANGED srv

\* parse_qs(query): a parameter with a blank value is dropped
parse_qs(query) == [name \in {n \in DOMAIN query : Len(query[n]) > 0} |-> query[name]]

\* do_GET, backend endpoint: the five parameters are read (KeyError when one
\* is missing) and then sanitized in the order of ARG_NAMES
do_GET_arguments ==
  /\ iface = "web" /\ pc = "start"
  /\ ~IsStartPage /\ StartsWith(path, WEBUI_BACKEND_ENDPOINT)
  /\ IF ArgNameSet \subseteq DOMAIN parse_qs(params)
       THEN LET res == [name \in ArgNameSet |-> Sanitize(name, params[name])]
                failing == {i \in 1..Len(ARG_NAMES) : Raised(res[ARG_NAMES[i]])}
                first == CHOOSE i \in failing : \A j \in failing : i <= j
            IN  IF failing = {}
                  THEN /\ args' = [name \in ArgNameSet |-> res[name].val]
                       /\ pc' = "Parsed"
                       /\ UNCHANGED exc
                  ELSE /\ exc' = Thrown(res[ARG_NAMES[first]], "args")
                       /\ pc' = "raised"
                       /\ UNCHANGED args
       ELSE /\ exc' = [kind |-> "KeyError", msg |-> "missing parameter", stage |-> "args"]
            /\ pc' = "raised"
            /\ UNCHANGED args
  /\ UNCHANGED <<iface, path, params, num, status, out, call, ret>>
  /\ UNCHANGED srv

\* num = base_to_int(num, from_base)
Decode ==
  /\ pc = "Parsed"
  /\ LET r == base_to_int(args.number.val_form, args.from_base)
     IN  IF Raised(r)
           THEN /\ exc' = Thrown(r, "decode")
                /\ pc' = "raised"
                /\ UNCHANGED num
           ELSE /\ num' = PyInt(r.val)
                /\ pc' = IF args.number.delimiter_offset = 0 THEN "Decoded" ELSE "Horner"
                /\ UNCHANGED exc
  /\ UNCHANGED <<iface, path, params, args, status, out, call, ret>>
  /\ UNCHANGED srv

\* if not delimiter_offset == 0: num = shift_right(num, from_base, delimiter_offset)
ShiftRight ==
  /\ pc = "Horner"
  /\ num' = shift_right(num.v, args.from_base, args.number.delimiter_offset)
  /\ pc' = "Decoded"
  /\ UNCHANGED <<iface, path, params, args, exc, status, out, call, ret>>
  /\ UNCHANGED srv

\* num = num * from_unit / to_unit
ScaleUnits ==
  /\ pc = "Decoded"
  /\ num' = Scale(num, args.from_unit, args.to_unit)
  /\ pc' = "Scaled"
  /\ UNCHANGED <<iface, path, params, args, exc, status, out, call, ret>>
  /\ UNCHANGED srv

\* num = float_to_base(num, to_base)
Encode ==
  /\ pc = "Scaled"
  /\ LET r == float_to_base(num, args.to_base)
     IN  IF Raised(r)
           THEN /\ exc' = Thrown(r, "encode")
                /\ pc' = "raised"
                /\ UNCHANGED num
           ELSE /\ num' = PyStr(r.val)
                /\ pc' = "Encoded"
                /\ UNCHANGED exc
  /\ UNCHANGED <<iface, path, params, args, status, out, call, ret>>
  /\ UNCHANGED srv

\* the zero prefix (num[0] raises IndexError on an empty str) and the sign
Format ==
  /\ pc = "Encoded"
  /\ IF Len(num.v) = 0
       THEN /\ exc' = [kind |-> "IndexError", msg |-> "string index out of range",
                       stage |-> "format"]
            /\ pc' = "raised"
            /\ UNCHANGED num
       ELSE LET prefixed == IF CharAt(num.v, 0) = DELIMITER THEN "0" \o num.v ELSE num.v
            IN  /\ num' = PyStr(IF args.number.is_negative THEN "-" \o prefixed ELSE prefixed)
                /\ pc' = "Formatted"
                /\ UNCHANGED exc
  /\ UNCHANGED <<iface, path, params, args, status, out, call, ret>>
  /\ UNCHANGED srv

\* the result is printed (main) or sent with status 200 (do_GET)
Emit ==
  /\ pc = "Formatted"
  /\ out' = num
  /\ status' = IF iface = "web" THEN 200 ELSE 0
  /\ pc' = "done"
  /\ UNCHANGED <<iface, path, params, args, num, exc, call, ret>>
  /\ UNCHANGED srv

\* do_GET: except (KeyError, ValueError) sends 400; any other exception
\* leaves do_GET and the request gets no response
do_GET_except ==
  /\ iface = "web" /\ pc = "raised"
  /\ IF exc.kind \in {"KeyError", "ValueError"}
       THEN status' = 400 /\ pc' = "done"
       ELSE status' = NoStatus /\ pc' = "died"
  /\ UNCHANGED <<iface, path, params, args, num, exc, out, call, ret>>
  /\ UNCHANGED srv

\* main: a usage error of argparse exits with status 2, an exception that
\* nothing catches ends the process with a traceback and status 1
main_exit ==
  /\ iface = "cli" /\ pc = "raised"
  /\ IF exc.stage = "args" /\ exc.kind \in {"ArgumentTypeError", "ValueError"}
       THEN status' = 2 /\ pc' = "done"
       ELSE status' = 1 /\ pc' = "died"
  /\ UNCHANGED <<iface, path, params, args, num, exc, out, call, ret>>
  /\ UNCHANGED srv

Next ==
  \/ get_arguments
  \/ do_GET_startpage
  \/ do_GET_not_found
  \/ do_GET_arguments
  \/ Decode
  \/ ShiftRight
  \/ ScaleUnits
  \/ Encode
  \/ Format
  \/ Emit
  \/ do_GET_except
  \/ main_exit

Spec == Init /\ [][Next]_vars

----------------------------------------------------------------------------
(* Single calls of the validation and conversion functions *)

\* characters of the texts given to get_abs and type_alphanumeric
TEXT_CHARS == "05A.-+ $"
\* characters of the tokens given to type_base, besides the table's names
TOKEN_CHARS == "0123456789aA-"

\* for base B, digit strings over the digits 0, 1, B-2, B-1, B and z
BoundaryDigits(base) ==
  {CharAt(ALNUM_LIST, d) : d \in {0, 1, base - 2, base - 1, base, 35} \cap 0..35}

\* the floats n / 2^k in lowest terms with n <= maxnum and k <= FLOAT_K_MAX
SmallFloats(maxnum) == {Flt(n, k) : n \in 0..maxnum, k \in 0..FLOAT_K_MAX}

\* characters of the tokens given to type_unit, besides the re-cased names
UNIT_CHARS == "bBnNk8 "

UpperChar(c) == IF CharIn(c, ASCII_LOWER) THEN CharAt(ASCII_UPPER, Find(ASCII_LOWER, c)) ELSE c

RECURSIVE Upper(_)
\* s.upper()
Upper(s) == IF Len(s) = 0 THEN "" ELSE UpperChar(Head(s)) \o Upper(Drop(s, 1))

RECURSIVE AllCasings(_)
\* every way of writing s in upper and lower case letters
AllCasings(s) ==
  IF Len(s) = 0 THEN {""}
  ELSE {c \o t : c \in {LowerChar(Head(s)), UpperChar(Head(s))}, t \in AllCasings(Drop(s, 1))}

\* s in lower case, in upper case, capitalized, and with every second letter raised
SomeCasings(s) ==
  LET alt[i \in 0..Len(s)] ==
        IF i = 0 THEN ""
        ELSE alt[i - 1] \o (IF i % 2 = 0 THEN UpperChar(CharAt(s, i - 1))
                                         ELSE LowerChar(CharAt(s, i - 1)))
  IN  {s, Lower(s), Upper(s), UpperChar(Head(s)) \o Lower(Drop(s, 1)), alt[Len(s)]}

UnitLongNames == {UNITS_RAW[i][1][2] : i \in 1..Len(UNITS_RAW)}

\* the tokens given to type_unit: every casing of every short name, some
\* casings of every long name, and short tokens that are no name at all
UnitTokens(maxtoken) ==
  UNION {AllCasings(n) : n \in UnitShortNames}
  \cup UNION {SomeCasings(n) : n \in UnitLongNames}
  \cup Strings(Chars(UNIT_CHARS), maxtoken)
  \cup {"kibibyte ", "bits", "kilo"}

Calls(maxlen, maxtoken, maxdigits, maxnum) ==
  {[fn |-> "type_alphanumeric", arg |-> <<t>>, origin |-> None] :
     t \in Strings(Chars(TEXT_CHARS), maxlen)}
  \cup
  {[fn |-> "type_base", arg |-> <<t>>, origin |-> None] :
     t \in DOMAIN BASES \cup Strings(Chars(TOKEN_CHARS), maxtoken) \cup {"HEX", "Dozenal", "abc"}}
  \cup
  {[fn |-> "type_unit", arg |-> <<t>>, origin |-> None] : t \in UnitTokens(maxtoken)}
  \cup
  UNION {{[fn |-> "base_to_int", arg |-> <<d, b>>, origin |-> None] :
            d \in Strings(BoundaryDigits(b), maxdigits)} : b \in BASE_MIN..BASE_MAX}
  \cup
  {[fn |-> "float_to_base", arg |-> <<PyFloat(x), b>>, origin |-> None] :
     x \in SmallFloats(maxnum), b \in BASE_MIN..BASE_MAX}

InitCall ==
  /\ iface = "call"
  /\ call \in Calls(MaxLen, MaxToken, MaxDigits, MaxNum)
  /\ pc = "call"
  /\ ret = None
  /\ path = ""
  /\ params = << >>
  /\ args = None
  /\ num = None
  /\ exc = NoExc
  /\ status = NoStatus
  /\ out = None
  /\ ServerOff

Return(r) ==
  /\ ret' = r
  /\ pc' = "returned"
  /\ UNCHANGED <<iface, path, params, args, num, exc, status, out, call>>
  /\ UNCHANGED srv

Call_type_alphanumeric ==
  /\ pc = "call" /\ call.fn = "type_alphanumeric"
  /\ Return(type_alphanumeric(call.arg[1]))

Call_type_base ==
  /\ pc = "call" /\ call.fn = "type_base"
  /\ Return(type_base(call.arg[1]))

Call_type_unit ==
  /\ pc = "call" /\ call.fn = "type_unit"
  /\ Return(type_unit(call.arg[1]))

Call_base_to_int ==
  /\ pc = "call" /\ call.fn = "base_to_int"
  /\ Return(base_to_int(call.arg[1], call.arg[2]))

Call_float_to_base ==
  /\ pc = "call" /\ call.fn = "float_to_base"
  /\ Return(float_to_base(call.arg[1], call.arg[2]))

\* the int that base_to_int returned is encoded again in the same base
Call_round_trip ==
  /\ pc = "returned" /\ call.fn = "base_to_int"
  /\ ~Raised(ret)
  /\ call' = [fn |-> "float_to_base", arg |-> <<PyInt(ret.val), call.arg[2]>>,
              origin |-> PyStr(call.arg[1])]
  /\ pc' = "call"
  /\ ret' = None
  /\ UNCHANGED <<iface, path, params, args, num, exc, status, out>>
  /\ UNCHANGED srv

NextCall ==
  \/ Call_type_alphanumeric
  \/ Call_type_base
  \/ Call_type_unit
  \/ Call_base_to_int
  \/ Call_float_to_base
  \/ Call_round_trip

SpecCall == InitCall /\ [][NextCall]_vars

----------------------------------------------------------------------------
(* start_webui: the TCPServer, its serving loop and the shutdown threads *)

\* most connections made to the server
MaxRequests == 3

\* request targets: the start page, the backend (without and with a query),
\* the shutdown endpoint and a page that does not exist
ServerTargets == {"/", "/backend", "/backend?inputNumber=1", "/shutdown", "/favicon.ico"}

\* the serving thread at a position, handling the request req (0: none)
At(position, req) == [at |-> position, req |-> req]

IsShutdownRequest(r) == StartsWith(requests[r].target, WEBUI_SHUTDOWN_ENDPOINT)

InitServer ==
  /\ iface = "web-ui"
  /\ pc = "serve" /\ path = "" /\ params = << >>
  /\ args = None /\ num = None /\ exc = NoExc
  /\ status = NoStatus /\ out = None
  /\ call = NoCall /\ ret = None
  /\ loop = At("start_webui", 0)
  /\ shutdown_request = FALSE
  /\ is_shut_down = FALSE
  /\ socket_open = FALSE
  /\ pending = << >>
  /\ requests = << >>
  /\ threads = << >>

\* a client connects and sends a GET; the connection waits to be accepted
Connect ==
  /\ socket_open /\ Len(requests) < MaxRequests
  /\ \E target \in ServerTargets :
       requests' = Append(requests, [target |-> target, status |-> NoStatus])
  /\ pending' = Append(pending, Len(requests) + 1)
  /\ threads' = Append(threads, "none")
  /\ UNCHANGED <<loop, shutdown_request, is_shut_down, socket_open>>
  /\ UNCHANGED conv

\* start_webui up to serve_forever: the TCPServer is bound and listening
start_webui ==
  /\ loop.at = "start_webui"
  /\ socket_open' = TRUE
  /\ loop' = At("serve_forever", 0)
  /\ UNCHANGED <<shutdown_request, is_shut_down, pending, requests, threads>>
  /\ UNCHANGED conv

\* serve_forever: self.__is_shut_down.clear()
serve_forever ==
  /\ loop.at = "serve_forever"
  /\ is_shut_down' = FALSE
  /\ loop' = At("while", 0)
  /\ UNCHANGED <<shutdown_request, socket_open, pending, requests, threads>>
  /\ UNCHANGED conv

\* while not self.__shutdown_request
serve_forever_while ==
  /\ loop.at = "while"
  /\ loop' = IF shutdown_request THEN At("finally", 0) ELSE At("select", 0)
  /\ UNCHANGED <<shutdown_request, is_shut_down, socket_open, pending, requests, threads>>
  /\ UNCHANGED conv

\* ready = selector.select(poll_interval): a connection is waiting, or the
\* poll interval has passed
serve_forever_select ==
  /\ loop.at = "select"
  /\ loop' = IF pending # << >> THEN At("ready", 0) ELSE At("timeout", 0)
  /\ UNCHANGED <<shutdown_request, is_shut_down, socket_open, pending, requests, threads>>
  /\ UNCHANGED conv

\* if self.__shutdown_request: break; if ready: the connection is accepted
\* and its handler runs; then the loop goes round
serve_forever_ready ==
  /\ loop.at \in {"ready", "timeout"}
  /\ IF shutdown_request
       THEN loop' = At("finally", 0) /\ UNCHANGED pending
       ELSE IF loop.at = "ready"
         THEN loop' = At("do_GET", Head(pending)) /\ pending' = Tail(pending)
         ELSE loop' = At("while", 0) /\ UNCHANGED pending
  /\ UNCHANGED <<shutdown_request, is_shut_down, socket_open, requests, threads>>
  /\ UNCHANGED conv

\* the status do_GET sends for a target; an exception that leaves do_GET is
\* caught by the server (handle_error) and the request gets no status
do_GET_statuses(target) ==
  IF target = "/" THEN {200}
  ELSE IF StartsWith(target, WEBUI_BACKEND_ENDPOINT)
    THEN IF target = WEBUI_BACKEND_ENDPOINT THEN {400} ELSE {200, 400, NoStatus}
  ELSE {404}

\* do_GET for a request that is not a shutdown request
do_GET_serve ==
  /\ loop.at = "do_GET" /\ ~IsShutdownRequest(loop.req)
  /\ \E st \in do_GET_statuses(requests[loop.req].target) :
       requests' = [requests EXCEPT ![loop.req].status = st]
  /\ loop' = At("while", 0)
  /\ UNCHANGED <<shutdown_request, is_shut_down, socket_open, pending, threads>>
  /\ UNCHANGED conv

\* do_GET, shutdown endpoint, calling shutdown_server in the serving thread
do_GET_shutdown_inline ==
  /\ loop.at = "do_GET" /\ IsShutdownRequest(loop.req)
  /\ requests' = [requests EXCEPT ![loop.req].status = 200]
  /\ shutdown_request' = TRUE
  /\ loop' = At("wait", loop.req)
  /\ UNCHANGED <<is_shut_down, socket_open, pending, threads>>
  /\ UNCHANGED conv

\* do_GET, shutdown endpoint: the response is sent, then a thread is
\* started on shutdown_server and the handler returns
do_GET_shutdown ==
  /\ loop.at = "do_GET" /\ IsShutdownRequest(loop.req)
  /\ requests' = [requests EXCEPT ![loop.req].status = 200]
  /\ threads' = [threads EXCEPT ![loop.req] = "shutdown"]
  /\ loop' = At("while", 0)
  /\ UNCHANGED <<shutdown_request, is_shut_down, socket_open, pending>>
  /\ UNCHANGED conv

\* shutdown_server in the thread of request t: server.shutdown() sets
\* self.__shutdown_request
shutdown_server_request(t) ==
  /\ t \in DOMAIN threads /\ threads[t] = "shutdown"
  /\ shutdown_request' = TRUE
  /\ threads' = [threads EXCEPT ![t] = "wait"]
  /\ UNCHANGED <<loop, is_shut_down, socket_open, pending, requests>>
  /\ UNCHANGED conv

\* server.shutdown(): self.__is_shut_down.wait() returns once the event is set
shutdown_server_wait(t) ==
  /\ t \in DOMAIN threads /\ threads[t] = "wait"
  /\ is_shut_down
  /\ threads' = [threads EXCEPT ![t] = "server_close"]
  /\ UNCHANGED <<loop, shutdown_request, is_shut_down, socket_open, pending, requests>>
  /\ UNCHANGED conv

\* self.server_instance.server_close(): the listening socket is closed
shutdown_server_close(t) ==
  /\ t \in DOMAIN threads /\ threads[t] = "server_close"
  /\ socket_open' = FALSE
  /\ threads' = [threads EXCEPT ![t] = "done"]
  /\ UNCHANGED <<loop, shutdown_request, is_shut_down, pending, requests>>
  /\ UNCHANGED conv

\* the thread started by the handler of request t
shutdown_server(t) ==
  \/ shutdown_server_request(t)
  \/ shutdown_server_wait(t)
  \/ shutdown_server_close(t)

\* serve_forever, finally: self.__shutdown_request = False
serve_forever_finally ==
  /\ loop.at = "finally"
  /\ shutdown_request' = FALSE
  /\ loop' = At("set", 0)
  /\ UNCHANGED <<is_shut_down, socket_open, pending, requests, threads>>
  /\ UNCHANGED conv

\* serve_forever, finally: self.__is_shut_down.set(); serve_forever returns
serve_forever_set ==
  /\ loop.at = "set"
  /\ is_shut_down' = TRUE
  /\ loop' = At("server_close", 0)
  /\ UNCHANGED <<shutdown_request, socket_open, pending, requests, threads>>
  /\ UNCHANGED conv

\* start_webui, finally: httpd.server_close(), and start_webui returns
start_webui_finally ==
  /\ loop.at = "server_close"
  /\ socket_open' = FALSE
  /\ loop' = At("returned", 0)
  /\ UNCHANGED <<shutdown_request, is_shut_down, pending, requests, threads>>
  /\ UNCHANGED conv

\* the steps of the serving thread
ServingThread ==
  \/ start_webui
  \/ serve_forever
  \/ serve_forever_while
  \/ serve_forever_select
  \/ serve_forever_ready
  \/ do_GET_serve
  \/ do_GET_shutdown
  \/ serve_forever_finally
  \/ serve_forever_set
  \/ start_webui_finally

NextServer ==
  \/ Connect
  \/ ServingThread
  \/ \E t \in 1..MaxRequests : shutdown_server(t)

\* every thread that can take a step eventually takes one (the serving
\* thread's select returns after the poll interval at the latest); clients
\* are under no obligation to connect
SpecServer ==
  /\ InitServer
  /\ [][NextServer]_vars
  /\ WF_vars(ServingThread)
  /\ \A t \in 1..MaxRequests : WF_vars(shutdown_server(t))

----------------------------------------------------------------------------
(* Properties *)

\* a conversion request: a run of main, or a GET to the backend endpoint,
\* with all five arguments given
IsConversion ==
  /\ iface \in {"cli", "web"}
  /\ DOMAIN params = ArgNameSet
  /\ iface = "web" => StartsWith(path, WEBUI_BACKEND_ENDPOINT)

\* the arguments of the conversion have been accepted
Sanitized == IsConversion /\ pc \notin {"start", "call", "returned"} /\ args # None

Failed == pc \in {"raised", "died"}

DigitValue(c) == Find(ALNUM_LIST, c)

RECURSIVE StripLeadingZeros(_)
\* s without its leading zeros, down to one digit
StripLeadingZeros(s) ==
  IF Len(s) > 1 /\ Head(s) = "0" THEN StripLeadingZeros(Drop(s, 1)) ELSE s

RECURSIVE StripTrailingZeros(_)
StripTrailingZeros(s) ==
  IF Len(s) > 0 /\ CharAt(s, Len(s) - 1) = "0"
    THEN StripTrailingZeros(SubSeq(s, 1, Len(s) - 1)) ELSE s

RECURSIVE DropSigns(_)
\* s without its leading run of + and -
DropSigns(s) ==
  IF Len(s) > 0 /\ Head(s) \in {"+", "-"} THEN DropSigns(Drop(s, 1)) ELSE s

Count(s, c) == Cardinality({i \in 0..(Len(s) - 1) : CharAt(s, i) = c})

\* C1: converting the literal "0" never fails and ends with the result "0",
\* whatever the bases and the units.
C1_ZeroYieldsZero ==
  (Sanitized /\ params.number = "0") =>
    /\ ~Failed
    /\ pc = "done" => (out.type = "str" /\ out.v = "0")

\* C2: encoding what base_to_int decoded from a non-empty digit string gives
\* the string back, without its leading zeros beyond the first digit.
C2_RoundTrip ==
  (pc = "returned" /\ call.fn = "float_to_base" /\ call.origin.type = "str"
     /\ Len(call.origin.v) > 0) =>
    /\ ~Raised(ret)
    /\ ret.val = StripLeadingZeros(call.origin.v)

\* C3: base_to_int succeeds when every digit value is at most base - 1 and
\* raises the digit-out-of-range ValueError, returning nothing, when some
\* digit value is base or more.
C3_BaseBoundary ==
  (pc = "returned" /\ call.fn = "base_to_int") =>
    IF \E c \in Chars(call.arg[1]) : DigitValue(c) >= call.arg[2]
      THEN ret.exc = [kind |-> "ValueError", msg |-> "Number is not of base."]
      ELSE ~Raised(ret)

\* C3, witness: a digit string with the digit of value base was refused
C3_Witness ==
  /\ pc = "returned" /\ call.fn = "base_to_int"
  /\ \E c \in Chars(call.arg[1]) : DigitValue(c) = call.arg[2]
  /\ \A c \in Chars(call.arg[1]) : DigitValue(c) <= call.arg[2]
  /\ Raised(ret)

\* C4: type_alphanumeric either returns a parsed number or raises
\* ArgumentTypeError, for every text.
C4_ParseTotal ==
  (pc = "returned" /\ call.fn = "type_alphanumeric") =>
    ret.exc.kind \in {"none", "ArgumentTypeError"}

\* C5: the parser removes at most one delimiter, the offset is the number of
\* digits to the right of it (0 without a delimiter), and the literal is
\* accepted exactly when what remains besides the sign run and that single
\* delimiter is alphanumeric; two or more delimiters are refused.
C5_SingleDelimiter ==
  (pc = "returned" /\ call.fn = "type_alphanumeric" /\ ret.exc.kind # "IndexError") =>
    LET body == DropSigns(Lower(Strip(call.arg[1])))
        dots == Count(body, DELIMITER)
    IN  /\ dots >= 2 => ret.exc.kind = "ArgumentTypeError"
        /\ ~Raised(ret) <=>
             (dots <= 1 /\ \A c \in Chars(body) \ {DELIMITER} : CharIn(c, ALNUM_LIST))
        /\ ~Raised(ret) =>
             /\ Len(ret.val.val_form) >= Len(body) - 1
             /\ ret.val.delimiter_offset =
                  IF dots = 0 THEN 0 ELSE Len(body) - 1 - Find(body, DELIMITER)

IsDecimalNumeral(t) == Len(t) > 0 /\ \A c \in Chars(t) : CharIn(c, "0123456789")

RECURSIVE DecimalValue(_)
DecimalValue(t) ==
  IF Len(t) = 0 THEN 0
  ELSE 10 * DecimalValue(SubSeq(t, 1, Len(t) - 1)) + DigitValue(CharAt(t, Len(t) - 1))

\* C6: type_base returns the table value of a known name (in any casing) or
\* the value of a decimal numeral within [2,36], and raises
\* ArgumentTypeError for every other token.
C6_BaseResolution ==
  (pc = "returned" /\ call.fn = "type_base") =>
    LET t == call.arg[1]
    IN  IF Lower(t) \in DOMAIN BASES
          THEN ~Raised(ret) /\ ret.val = BASES[Lower(t)] /\ ret.val \in BASE_MIN..BASE_MAX
        ELSE IF IsDecimalNumeral(t) /\ DecimalValue(t) \in BASE_MIN..BASE_MAX
          THEN ~Raised(ret) /\ ret.val = DecimalValue(t)
        ELSE ret.exc.kind = "ArgumentTypeError"

\* the value of a literal as sign, integer digits and fraction digits, in
\* the form that two literals of one base share exactly when they are equal
Canon(is_negative, whole, fraction) ==
  LET w == StripLeadingZeros(IF whole = "" THEN "0" ELSE whole)
      f == StripTrailingZeros(fraction)
  IN  <<is_negative /\ ~(w = "0" /\ f = ""), w, f>>

CanonParsed(number) ==
  LET split == Len(number.val_form) - number.delimiter_offset
  IN  Canon(number.is_negative, SubSeq(number.val_form, 1, split),
            Drop(number.val_form, split))

CanonLiteral(s) ==
  LET neg == Len(s) > 0 /\ Head(s) = "-"
      body == IF neg THEN Drop(s, 1) ELSE s
      pos == Find(body, DELIMITER)
  IN  IF pos = -1 THEN Canon(neg, body, "")
      ELSE Canon(neg, SubSeq(body, 1, pos), Drop(body, pos + 1))

\* C7: with from_unit = to_unit and from_base = to_base a valid literal is
\* converted, without a failure, to a literal of the same value, whichever
\* the unit.
C7_UnitIdentity ==
  (/\ Sanitized
   /\ args.from_base = args.to_base /\ args.from_unit = args.to_unit
   /\ Len(args.number.val_form) > 0
   /\ Count(DropSigns(Lower(Strip(params.number))), DELIMITER) <= 1
   /\ \A c \in Chars(args.number.val_form) : DigitValue(c) < args.from_base) =>
    /\ ~Failed
    /\ pc = "done" => (out.type = "str" /\ CanonLiteral(out.v) = CanonParsed(args.number))

RECURSIVE TruncatedDigits(_, _, _, _)
\* the first `left` digits in base `base` of the fraction m / d, none rounded,
\* ending early when nothing remains
TruncatedDigits(m, d, base, left) ==
  IF left = 0 \/ m = 0 THEN ""
  ELSE CharAt(ALNUM_LIST, (m * base) \div d)
         \o TruncatedDigits((m * base) % d, d, base, left - 1)

FractionOf(s) == IF CharIn(DELIMITER, s) THEN Drop(s, Find(s, DELIMITER) + 1) ELSE ""

\* C8: for a value x >= 0, float_to_base emits the first 10 digits of the
\* fraction of x, each the truncated integer part of remainder * base,
\* stopping early exactly when the remainder is 0 and never rounding.
C8_FractionTruncated ==
  (pc = "returned" /\ call.fn = "float_to_base" /\ call.origin.type = "None") =>
    LET n == call.arg[1].v[1]
        d == Pow(2, call.arg[1].v[2])
    IN  /\ ~Raised(ret)
        /\ FractionOf(ret.val) = TruncatedDigits(n % d, d, call.arg[2], FRACTION_DIGITS)

\* a literal made of a run of signs followed by a digit
IsSignedLiteral(s) ==
  LET body == DropSigns(Lower(Strip(s)))
  IN  Len(body) > 0 /\ CharIn(Head(body), ALNUM_LIST)

MinusCount(s) ==
  LET t == Lower(Strip(s)) IN Count(SubSeq(t, 1, Len(t) - Len(DropSigns(t))), "-")

\* C9: for a literal with a run of signs before its digits, the parsed
\* number is negative exactly when the run has an odd number of '-', the
\* whole run is stripped, and the result that is emitted starts with '-'
\* exactly when the parsed number is negative.
C9_SignParity ==
  (Sanitized /\ IsSignedLiteral(params.number)) =>
    /\ args.number.is_negative <=> (MinusCount(params.number) % 2 = 1)
    /\ \A c \in Chars(args.number.val_form) : c \notin {"+", "-"}
    /\ Head(args.number.val_form) = Head(DropSigns(Lower(Strip(params.number))))
    /\ out.type = "str" =>
         ((Head(out.v) = "-") <=> (MinusCount(params.number) % 2 = 1))

\* C9, witness: the literal "+-1" was converted and its result is negative
C9_Witness ==
  /\ Sanitized /\ pc = "done"
  /\ params.number = "+-1"
  /\ out.type = "str" /\ Head(out.v) = "-"

\* C10: a GET to the backend endpoint whose parameters are missing or fail
\* in any stage is answered with status 400.
C10_WebErrors400 ==
  (/\ iface = "web" /\ ~IsStartPage /\ StartsWith(path, WEBUI_BACKEND_ENDPOINT)
   /\ pc \in {"done", "died"}
   /\ exc.kind # "none") =>
    status = 400

\* the steps the code takes from one stage to the next; "Horner" is the
\* position between base_to_int and shift_right inside the decoding
STAGE_STEPS ==
  { <<"Parsed", "Horner">>, <<"Parsed", "Decoded">>, <<"Horner", "Decoded">>,
    <<"Decoded", "Scaled">>, <<"Scaled", "Encoded">>, <<"Encoded", "Formatted">>,
    <<"Formatted", "done">> }

PipelineStages == {"Parsed", "Horner", "Decoded", "Scaled", "Encoded", "Formatted"}

\* the error kinds defined for a stage: InvalidNumberLiteral, UnsupportedBase
\* and UnsupportedUnit (ArgumentTypeError) when the arguments are parsed and
\* resolved, DigitOutOfRange (the not-of-base ValueError) when decoding
DefinedError(e) ==
  \/ e.stage = "args" /\ e.kind = "ArgumentTypeError"
  \/ e.stage = "decode" /\ e.kind = "ValueError" /\ e.msg = "Number is not of base."

\* a stage moves to the next stage or fails, and a failure ends the run
StagedStep ==
  /\ (pc \in PipelineStages /\ pc' # pc) =>
       (<<pc, pc'>> \in STAGE_STEPS \/ (pc' = "raised" /\ exc'.kind # "none"))
  /\ (pc = "raised" /\ pc' # pc) => pc' \in {"done", "died"}
  /\ pc \in {"done", "died"} => pc' = pc

\* a failed run has emitted no result
NoResultOnFailure == exc.kind # "none" => out = None

\* C11: a conversion (a request that gives all five arguments) passes the stages Parsed, Decoded, Scaled, Encoded,
\* Formatted in that order without retry; when a stage fails no later stage
\* runs, the failure is one of the error kinds defined for that stage, and
\* no result is emitted.
C11_PipelineStaging ==
  [][(IsConversion /\ ArgNameSet \subseteq DOMAIN parse_qs(params)) =>
       /\ StagedStep
       /\ NoResultOnFailure'
       /\ exc'.kind # "none" => DefinedError(exc')]_vars

\* the weight the table gives to the entry with this short or long name
UnitWeightOf(name) ==
  LET i == CHOOSE i \in 1..Len(UNITS_RAW) : name \in {UNITS_RAW[i][1][1], UNITS_RAW[i][1][2]}
  IN  UNITS_RAW[i][2]

UnitWeights == {UNITS_RAW[i][2] : i \in 1..Len(UNITS_RAW)}

UnsupportedUnit(r) ==
  /\ Raised(r)
  /\ r.exc.kind = "ArgumentTypeError"
  /\ r.exc.msg = "Unit may exist, but this program does not support it."

\* C12: type_unit resolves a short name only when the token is written
\* exactly as in the table, resolves a long name in any letter casing,
\* rejects every other token with UnsupportedUnit, and returns only the
\* positive weights of the table.
C12_UnitCaseRules ==
  (pc = "returned" /\ call.fn = "type_unit") =>
    LET t == call.arg[1]
    IN  /\ t \in UnitShortNames => ret = Ret(UnitWeightOf(t))
        /\ Lower(t) \in UnitLongNames => ret = Ret(UnitWeightOf(Lower(t)))
        /\ (t \notin UnitShortNames /\ Lower(t) \notin UnitLongNames) => UnsupportedUnit(ret)
        /\ t = "b" => ret = Ret(Weight(0, 0))
        /\ t = "B" => ret = Ret(Weight(3, 0))
        /\ t = "Kb" => ret = Ret(Weight(3, 3))
        /\ t = "KB" => ret = Ret(Weight(6, 3))
        /\ t \in {"kb", "n"} => UnsupportedUnit(ret)
        /\ ~Raised(ret) =>
             /\ ret.val \in UnitWeights
             /\ ret.val.two >= 0 /\ ret.val.five >= 0

\* C12, witness: the re-cased short name "kb" was rejected; "KILOBYTE" and
\* the short names "B", "b", "KB", "Kb" are covered by the calls as well
C12_Witness ==
  /\ pc = "returned" /\ call.fn = "type_unit"
  /\ call.arg[1] = "kb"
  /\ UnsupportedUnit(ret)

\* the scenario: the literal "10" from base 2 to base 16, bit to bit
IsScenario10 == IsConversion /\ params = Args("10", "2", "16", "b", "b")

\* C13, as claimed: the literal "10" with from_base 2, to_base 16 and units
\* bit to bit produces the output literal "a".
C13_ScenarioOutputsA ==
  (IsScenario10 /\ pc = "done") => out = PyStr("a")

\* C13, amended: the literal "10" with from_base 2, to_base 16 and units
\* bit to bit is converted without failure and produces the output literal
\* "2" (the value two), with exit status 0 or response status 200.
C13_ScenarioOutputs2 ==
  IsScenario10 =>
    /\ pc \notin {"raised", "died"}
    /\ pc = "Decoded" => num = PyInt(2)
    /\ pc = "done" =>
         /\ out = PyStr("2")
         /\ status = IF iface = "web" THEN 200 ELSE 0

\* C13, witness: the scenario has run to its end and emitted "2"
C13_Witness ==
  /\ IsScenario10 /\ pc = "done"
  /\ out = PyStr("2")

\* a GET to the backend endpoint built from the page's own option values
IsPageRequest ==
  /\ iface = "web" /\ path = WEBUI_BACKEND_ENDPOINT
  /\ DOMAIN params = ArgNameSet
  /\ params.from_base \in WEBUI_BASE_OPTIONS /\ params.to_base \in WEBUI_BASE_OPTIONS
  /\ params.from_unit \in WEBUI_UNIT_OPTIONS /\ params.to_unit \in WEBUI_UNIT_OPTIONS
  /\ params.number = "1"

\* C14: every base and unit option value of the page is accepted by
\* type_base and type_unit, and a backend request built from the page's
\* option values and the number 1 is answered 200 with a result.
C14_PageOptionsAccepted ==
  IsPageRequest =>
    /\ pc \notin {"raised", "died"}
    /\ pc # "start" => args # None
    /\ pc = "done" => (status = 200 /\ out.type = "str")

\* the handler of shutdown request r has sent its response
ShutdownAnswered(r) ==
  r \in DOMAIN requests /\ IsShutdownRequest(r) /\ requests[r].status = 200

\* C15: once a GET to the shutdown endpoint has been handled, the serving
\* loop eventually stops and start_webui returns, whatever the interleaving
\* with the shutdown threads and with further requests; every shutdown
\* thread ends, the handler never keeps the serving thread waiting, and the
\* shutdown request has its 200 response when its handler is left.
C15_WebShutdown ==
  /\ \A r \in 1..MaxRequests :
       /\ ShutdownAnswered(r) ~> (loop.at = "returned")
       /\ ShutdownAnswered(r) ~> (r \in DOMAIN threads /\ threads[r] = "done")
       /\ (loop = At("do_GET", r)) ~> (loop.at = "while")
  /\ [][\A r \in DOMAIN requests :
          (loop = At("do_GET", r) /\ loop' # loop /\ IsShutdownRequest(r)) =>
            (requests'[r].status = 200 /\ loop'.at = "while")]_vars

\* C15, witness: two shutdown requests and a backend request between them
\* were all handled before the loop stopped, both shutdown threads have
\* ended and start_webui has returned
C15_Witness ==
  /\ loop.at = "returned"
  /\ Len(requests) = 3
  /\ IsShutdownRequest(1) /\ requests[1].status = 200 /\ threads[1] = "done"
  /\ StartsWith(requests[2].target, WEBUI_BACKEND_ENDPOINT) /\ requests[2].status # NoStatus
  /\ IsShutdownRequest(3) /\ requests[3].status = 200 /\ threads[3] = "done"
  /\ ~socket_open

====
